---- MODULE Spec2Model ----
(***************************************************************************)
(* Model of the /merge pipeline of src/app.py: one request handler         *)
(* (merge) that clamps its inputs, creates a temporary directory,          *)
(* downloads three files, runs ffmpeg, uploads the result and answers.     *)
(* Requests run concurrently (FastAPI runs a sync handler on a thread      *)
(* pool); every blocking call of the handler is one step of the model.     *)
(*                                                                         *)
(* Numbers: durations are whole seconds (Python int).  Times derived from  *)
(* the float constant 1.1 are kept in tenths of a second.  The music       *)
(* volume is a float, kept in hundredths, with NaN as a separate value.    *)
(***************************************************************************)
EXTENDS Integers, Sequences, FiniteSets

(* ------------------------------ bounds --------------------------------- *)
\* number of request slots served concurrently
NumReq == 2
\* how far the duration inputs reach below 0 and above 58
DurSlack == 2
\* how far (in hundredths) the volume inputs reach below 0.0 and above 1.0
VolSlack == 1

Reqs == 1..NumReq

(* ------------------------- values and inputs --------------------------- *)
None == "None"

\* a Python float: a number of hundredths, or NaN
Num(h) == [nan |-> FALSE, val |-> h]
NaN == [nan |-> TRUE, val |-> 0]

\* MergeRequest field defaults
DefaultMainDur == 4
DefaultCtaDur == 4
DefaultVolume == Num(15)

DurInputsWide == (0 - DurSlack)..(58 + DurSlack)
VolInputsWide == {Num(h) : h \in ((0 - VolSlack)..1) \cup {15} \cup (99..(100 + VolSlack))} \cup {NaN}

\* the responses a download can meet
FetchOutcomes == {"200", "404", "ConnectionError", "ChunkedEncodingError"}
\* the responses the upload can meet
UploadJson == { [secure_url |-> "https://res.example/v/a.mp4"],
                [secure_url |-> ""],
                [error |-> "bad preset"] }
NoJson == [none |-> TRUE]
UploadOutcomes == {"200", "400", "ConnectionError"}
EnvValues == {None, "set"}

DirNames == 1..NumReq
FileNames == {"main.mp4", "cta.mp4", "music.mp3", "out.mp4"}

(* ---------------------------- pure functions --------------------------- *)
\* Python's two-argument min and max on ints
PyMin(a, b) == IF b < a THEN b ELSE a
PyMax(a, b) == IF b > a THEN b ELSE a

\* Python float comparison: every comparison with NaN is False
FloatLt(a, b) == ~a.nan /\ ~b.nan /\ a.val < b.val
FloatMin(a, b) == IF FloatLt(b, a) THEN b ELSE a
FloatMax(a, b) == IF FloatLt(a, b) THEN b ELSE a

ClampDuration_NoFloor(sec) == PyMin(sec, 58)
ClampDuration(sec) == PyMax(1, PyMin(sec, 58))

ClampVolume(v) == FloatMax(Num(0), FloatMin(v, Num(100)))

\* fade_duration = 1.1 s, in tenths of a second
fade_duration == 11
Tenths(sec) == 10 * sec

total_duration_MainOnly(main_dur, cta_dur) == main_dur
total_duration(main_dur, cta_dur) == main_dur + cta_dur

fade_offset_NoFloor(main_dur) == Tenths(main_dur) - fade_duration
fade_offset(main_dur) == PyMax(7, Tenths(main_dur) - fade_duration)

\* the arguments of the ffmpeg command that depend on the request
FfmpegCmd(d, main_dur, cta_dur, vol) ==
    [ inputs |-> {<<d, "main.mp4">>, <<d, "cta.mp4">>, <<d, "music.mp3">>},
      xfade_duration |-> fade_duration,
      xfade_offset |-> fade_offset(main_dur),
      volume |-> vol,
      t |-> total_duration(main_dur, cta_dur),
      out |-> <<d, "out.mp4">> ]
NoCmd == [none |-> TRUE]

\* exceptions: class and str(e)
Exc(cls, msg) == [cls |-> cls, msg |-> msg]
NoExc == Exc(None, "")

\* requests.Response.raise_for_status
StatusError(code) ==
    IF code = "404" THEN Exc("HTTPError", "404 Client Error: Not Found for url")
    ELSE IF code = "400" THEN Exc("HTTPError", "400 Client Error: Bad Request for url")
    ELSE IF code = "503" THEN Exc("HTTPError", "503 Server Error: Service Unavailable for url")
    ELSE NoExc

FfmpegError == Exc("RuntimeError", "FFmpeg failed")
ConfigError == Exc("RuntimeError", "Missing CLOUDINARY_CLOUD_NAME or CLOUDINARY_UPLOAD_PRESET env vars")

\* Python truthiness of an environment value: None and "" are falsy
Truthy(v) == v # None /\ v # ""
ConfigMissing(cloud, preset) == ~Truthy(cloud) \/ ~Truthy(preset)

\* the tail of _upload_to_cloudinary: the response JSON to exception / value
UploadResult_GetDefault(j) ==
    [exc |-> NoExc,
     url |-> IF "secure_url" \in DOMAIN j THEN j.secure_url ELSE ""]
UploadResult(j) ==
    IF "secure_url" \notin DOMAIN j
    THEN [exc |-> Exc("RuntimeError", "Cloudinary upload missing secure_url"), url |-> None]
    ELSE [exc |-> NoExc, url |-> j.secure_url]

\* the handler's except clause: HTTPException(500, "Merge failed: " + str(e))
ErrorDetail_NoMessage(e) == <<"Merge failed: ", "">>
ErrorDetail(e) == <<"Merge failed: ", e.msg>>
ErrorResponse(e) == [status_code |-> 500, detail |-> ErrorDetail(e), final_url |-> None]
OkResponse(url) == [status_code |-> 200, detail |-> <<>>, final_url |-> url]
NoResponse == [status_code |-> 0, detail |-> <<>>, final_url |-> None]

\* tempfile.TemporaryDirectory: mkdtemp draws random names until mkdir succeeds,
\* so it only returns a name that did not exist.  Which unused name it returns
\* is immaterial (names are interchangeable); the model takes the smallest.
DirNamesOf(D) == {x.name : x \in D}
FreshDirs_AnyName(D) == DirNames
FreshDirs(D) ==
    LET unused == DirNames \ DirNamesOf(D)
    IN  {d \in unused : \A e \in unused : d <= e}

\* shutil.rmtree on the directory: the directory and the files under it
RemoveDir(d, D) == {x \in D : x.name # d}
RemoveTree(d, F) == {f \in F : f.dir # d}
\* open(path, "wb") ... write: the file holds what this writer wrote
WriteFile(d, name, who, F) ==
    {f \in F : ~(f.dir = d /\ f.name = name)} \cup {[dir |-> d, name |-> name, by |-> who]}

\* the order of the I/O stages of one request
StageOrder == <<"get_main", "get_cta", "get_audio", "ffmpeg", "post">>
FetchFile(stage) ==
    IF stage = "get_main" THEN "main.mp4"
    ELSE IF stage = "get_cta" THEN "cta.mp4" ELSE "music.mp3"
\* where the handler goes after a stage: on, or out of the with block
AfterStage_KeepGoing(stage, ok) ==
    IF stage = "get_main" THEN "get_cta"
    ELSE IF stage = "get_cta" THEN "get_audio"
    ELSE IF stage = "get_audio" THEN "ffmpeg"
    ELSE IF stage = "ffmpeg" THEN "publish"
    ELSE "exit_with"
AfterStage(stage, ok) ==
    IF ~ok THEN "exit_with"
    ELSE IF stage = "get_main" THEN "get_cta"
    ELSE IF stage = "get_cta" THEN "get_audio"
    ELSE IF stage = "get_audio" THEN "ffmpeg"
    ELSE IF stage = "ffmpeg" THEN "publish"
    ELSE "exit_with"

(* ------------------------------- state --------------------------------- *)
VARIABLES
    CLOUD_NAME, UPLOAD_PRESET,  \* module globals read from the environment
    dirs,        \* the temporary directories that exist: [name, by]
    files,       \* the files that exist: [dir, name, by]
    pc,          \* where each request's handler stands
    req,         \* the request body as received
    main_duration, cta_duration, volume,   \* the clamped values
    td,          \* the request's temporary directory
    cmd,         \* the ffmpeg command the request ran
    resp_json,   \* the JSON of the upload response
    exc,         \* the exception in flight
    final_url,   \* the value _upload_to_cloudinary returned
    log,         \* the I/O stages the request started, in order
    okStages,    \* the I/O stages that completed successfully
    failedAt,    \* the stage that raised
    result       \* the HTTP answer of the request

vars == <<CLOUD_NAME, UPLOAD_PRESET, dirs, files, pc, req, main_duration,
          cta_duration, volume, td, cmd, resp_json, exc, final_url, log,
          okStages, failedAt, result>>

config == <<CLOUD_NAME, UPLOAD_PRESET>>
NoReq == [main_duration_sec |-> 0, cta_duration_sec |-> 0, music_volume |-> Num(0)]

Init ==
    /\ CLOUD_NAME \in EnvValues
    /\ UPLOAD_PRESET \in EnvValues
    /\ dirs = {}
    /\ files = {}
    /\ pc = [r \in Reqs |-> "idle"]
    /\ req = [r \in Reqs |-> NoReq]
    /\ main_duration = [r \in Reqs |-> 0]
    /\ cta_duration = [r \in Reqs |-> 0]
    /\ volume = [r \in Reqs |-> Num(0)]
    /\ td = [r \in Reqs |-> 0]
    /\ cmd = [r \in Reqs |-> NoCmd]
    /\ resp_json = [r \in Reqs |-> NoJson]
    /\ exc = [r \in Reqs |-> NoExc]
    /\ final_url = [r \in Reqs |-> None]
    /\ log = [r \in Reqs |-> <<>>]
    /\ okStages = [r \in Reqs |-> {}]
    /\ failedAt = [r \in Reqs |-> None]
    /\ result = [r \in Reqs |-> NoResponse]

(* ------------------------------ actions -------------------------------- *)
\* merge, lines 112-121: the request arrives and its values are clamped
Receive(r, durs, vols) ==
    /\ pc[r] = "idle"
    /\ \E m \in durs, c \in durs, v \in vols :
        /\ req' = [req EXCEPT ![r] = [main_duration_sec |-> m, cta_duration_sec |-> c, music_volume |-> v]]
        /\ main_duration' = [main_duration EXCEPT ![r] = ClampDuration(m)]
        /\ cta_duration' = [cta_duration EXCEPT ![r] = ClampDuration(c)]
        /\ volume' = [volume EXCEPT ![r] = ClampVolume(v)]
    /\ pc' = [pc EXCEPT ![r] = "enter_with"]
    /\ UNCHANGED <<config, dirs, files, td, cmd, resp_json, exc, final_url, log, okStages, failedAt, result>>

\* merge, lines 123-128: the temporary directory is created
EnterWith(r) ==
    /\ pc[r] = "enter_with"
    /\ \E d \in FreshDirs(dirs) :
        /\ dirs' = dirs \cup {[name |-> d, by |-> r]}
        /\ td' = [td EXCEPT ![r] = d]
    /\ pc' = [pc EXCEPT ![r] = "get_main"]
    /\ UNCHANGED <<config, files, req, main_duration, cta_duration, volume, cmd, resp_json, exc, final_url, log, okStages, failedAt, result>>

\* _download, lines 30-36, called at lines 131-133
Download(r) ==
    /\ pc[r] \in {"get_main", "get_cta", "get_audio"}
    /\ log' = [log EXCEPT ![r] = Append(@, pc[r])]
    /\ \E o \in FetchOutcomes :
        /\ files' = IF o \in {"200", "ChunkedEncodingError"}
                    THEN WriteFile(td[r], FetchFile(pc[r]), r, files)
                    ELSE files
        /\ exc' = [exc EXCEPT ![r] =
                     IF o = "200" THEN NoExc
                     ELSE IF o \in {"404", "503"} THEN StatusError(o)
                     ELSE Exc(o, "transport failure")]
        /\ okStages' = [okStages EXCEPT ![r] = IF o = "200" THEN @ \cup {pc[r]} ELSE @]
        /\ failedAt' = [failedAt EXCEPT ![r] = IF o = "200" THEN @ ELSE pc[r]]
        /\ pc' = [pc EXCEPT ![r] = AfterStage(pc[r], o = "200")]
    /\ UNCHANGED <<config, dirs, req, main_duration, cta_duration, volume, td, cmd, resp_json, final_url, result>>

\* _run_ffmpeg_two_videos, lines 52-84: the command is built and the process started
FfmpegStart(r) ==
    /\ pc[r] = "ffmpeg"
    /\ cmd' = [cmd EXCEPT ![r] = FfmpegCmd(td[r], main_duration[r], cta_duration[r], volume[r])]
    /\ log' = [log EXCEPT ![r] = Append(@, "ffmpeg")]
    /\ pc' = [pc EXCEPT ![r] = "ffmpeg_wait"]
    /\ UNCHANGED <<config, dirs, files, req, main_duration, cta_duration, volume, td, resp_json, exc, final_url, okStages, failedAt, result>>

\* the input files of the command that exist
InputsPresent(c, F) == \A p \in c.inputs : \E f \in F : f.dir = p[1] /\ f.name = p[2]

\* _run_ffmpeg_two_videos, lines 84-86: the process exits
FfmpegExit(r) ==
    /\ pc[r] = "ffmpeg_wait"
    /\ \E returncode \in {0, 1}, wrote \in BOOLEAN :
        /\ returncode = 0 => (wrote /\ InputsPresent(cmd[r], files))
        /\ files' = IF wrote /\ [name |-> td[r], by |-> r] \in dirs
                    THEN WriteFile(td[r], "out.mp4", r, files) ELSE files
        /\ exc' = [exc EXCEPT ![r] = IF returncode # 0 THEN FfmpegError ELSE NoExc]
        /\ okStages' = [okStages EXCEPT ![r] = IF returncode = 0 THEN @ \cup {"ffmpeg"} ELSE @]
        /\ failedAt' = [failedAt EXCEPT ![r] = IF returncode = 0 THEN @ ELSE "ffmpeg"]
        /\ pc' = [pc EXCEPT ![r] = AfterStage("ffmpeg", returncode = 0)]
    /\ UNCHANGED <<config, dirs, req, main_duration, cta_duration, volume, td, cmd, resp_json, final_url, log, result>>

\* _upload_to_cloudinary, lines 90-91: the configuration is missing
PublishNoConfig(r) ==
    /\ pc[r] = "publish"
    /\ ConfigMissing(CLOUD_NAME, UPLOAD_PRESET)
    /\ exc' = [exc EXCEPT ![r] = ConfigError]
    /\ failedAt' = [failedAt EXCEPT ![r] = "config"]
    /\ pc' = [pc EXCEPT ![r] = "exit_with"]
    /\ UNCHANGED <<config, dirs, files, req, main_duration, cta_duration, volume, td, cmd, resp_json, final_url, log, okStages, result>>

\* _upload_to_cloudinary, lines 93-103: the file is opened and the POST sent
PublishPost(r) ==
    /\ pc[r] = "publish"
    /\ ~ConfigMissing(CLOUD_NAME, UPLOAD_PRESET)
    /\ IF \E f \in files : f.dir = td[r] /\ f.name = "out.mp4"
       THEN /\ log' = [log EXCEPT ![r] = Append(@, "post")]
            /\ pc' = [pc EXCEPT ![r] = "post_wait"]
            /\ UNCHANGED <<exc, failedAt>>
       ELSE /\ exc' = [exc EXCEPT ![r] = Exc("FileNotFoundError", "No such file or directory")]
            /\ failedAt' = [failedAt EXCEPT ![r] = "open"]
            /\ pc' = [pc EXCEPT ![r] = "exit_with"]
            /\ UNCHANGED log
    /\ UNCHANGED <<config, dirs, files, req, main_duration, cta_duration, volume, td, cmd, resp_json, final_url, okStages, result>>

\* _upload_to_cloudinary, lines 103-108: the response of the POST
UploadResponse(r) ==
    /\ pc[r] = "post_wait"
    /\ \E o \in UploadOutcomes :
        \E j \in (IF o = "200" THEN UploadJson ELSE {NoJson}) :
            LET e == IF o = "200" THEN UploadResult(j).exc
                     ELSE IF o = "400" THEN StatusError(o)
                     ELSE Exc(o, "transport failure")
            IN  /\ resp_json' = [resp_json EXCEPT ![r] = j]
                /\ exc' = [exc EXCEPT ![r] = e]
                /\ final_url' = [final_url EXCEPT ![r] = IF e = NoExc THEN UploadResult(j).url ELSE @]
                /\ okStages' = [okStages EXCEPT ![r] = IF e = NoExc THEN @ \cup {"post"} ELSE @]
                /\ failedAt' = [failedAt EXCEPT ![r] = IF e = NoExc THEN @ ELSE "post"]
                /\ pc' = [pc EXCEPT ![r] = AfterStage("post", e = NoExc)]
    /\ UNCHANGED <<config, dirs, files, req, main_duration, cta_duration, volume, td, cmd, log, result>>

\* merge, line 123 and lines 148-152: leaving the with block removes the
\* directory, raising or not; then the handler answers: the result at line 148,
\* or HTTPException(500) from the except clause.  The locals td and the
\* command die with the call.
Respond(e, url) == IF e = NoExc THEN OkResponse(url) ELSE ErrorResponse(e)

ExitWith_LeakOnError(r) ==
    /\ pc[r] = "exit_with"
    /\ dirs' = IF exc[r] = NoExc THEN RemoveDir(td[r], dirs) ELSE dirs
    /\ files' = IF exc[r] = NoExc THEN RemoveTree(td[r], files) ELSE files
    /\ result' = [result EXCEPT ![r] = Respond(exc[r], final_url[r])]
    /\ td' = [td EXCEPT ![r] = 0]
    /\ cmd' = [cmd EXCEPT ![r] = NoCmd]
    /\ pc' = [pc EXCEPT ![r] = "done"]
    /\ UNCHANGED <<config, req, main_duration, cta_duration, volume, resp_json, exc, final_url, log, okStages, failedAt>>
ExitWith(r) ==
    /\ pc[r] = "exit_with"
    /\ dirs' = RemoveDir(td[r], dirs)
    /\ files' = RemoveTree(td[r], files)
    /\ result' = [result EXCEPT ![r] = Respond(exc[r], final_url[r])]
    /\ td' = [td EXCEPT ![r] = 0]
    /\ cmd' = [cmd EXCEPT ![r] = NoCmd]
    /\ pc' = [pc EXCEPT ![r] = "done"]
    /\ UNCHANGED <<config, req, main_duration, cta_duration, volume, resp_json, exc, final_url, log, okStages, failedAt>>

\* a request with the field defaults of MergeRequest
ReceiveDefault(r) == Receive(r, {DefaultMainDur, DefaultCtaDur}, {DefaultVolume})
\* a request with any durations, or with any volume
ReceiveAnyDurations(r) == Receive(r, DurInputsWide, {DefaultVolume})
ReceiveAnyVolume(r) == Receive(r, {DefaultMainDur}, VolInputsWide)

\* concurrent requests
Next ==
    \E r \in Reqs :
        \/ ReceiveDefault(r)
        \/ EnterWith(r)
        \/ Download(r)
        \/ FfmpegStart(r)
        \/ FfmpegExit(r)
        \/ PublishNoConfig(r)
        \/ PublishPost(r)
        \/ UploadResponse(r)
        \/ ExitWith(r)

Spec == Init /\ [][Next]_vars

\* one request, over the whole range of its numeric fields
NextNum ==
    \/ ReceiveAnyDurations(1)
    \/ ReceiveAnyVolume(1)
    \/ EnterWith(1)
    \/ Download(1)
    \/ FfmpegStart(1)
    \/ FfmpegExit(1)
    \/ PublishNoConfig(1)
    \/ PublishPost(1)
    \/ UploadResponse(1)
    \/ ExitWith(1)

SpecNum == Init /\ [][NextNum]_vars

TypeOK ==
    /\ \A r \in Reqs : pc[r] \in {"idle", "enter_with", "get_main", "get_cta", "get_audio",
                                  "ffmpeg", "ffmpeg_wait", "publish", "post_wait",
                                  "exit_with", "done"}
    /\ \A x \in dirs : x.name \in DirNames /\ x.by \in Reqs
    /\ \A f \in files : f.dir \in DirNames /\ f.name \in FileNames /\ f.by \in Reqs

(* ----------------------------- properties ------------------------------ *)
FetchStages == {"get_main", "get_cta", "get_audio"}
IOStages == FetchStages \cup {"ffmpeg", "post"}
Started(r) == {log[r][i] : i \in 1..Len(log[r])}
IsPrefix(s, t) == Len(s) <= Len(t) /\ \A i \in 1..Len(s) : s[i] = t[i]
Done(r) == pc[r] = "done"
Failed(r) == Done(r) /\ result[r].status_code # 200
\* the request is inside the with block: its directory is in use
InWith(r) == pc[r] \in {"get_main", "get_cta", "get_audio", "ffmpeg", "ffmpeg_wait",
                        "publish", "post_wait", "exit_with"}

\* C1: once a request has answered (result or error, whatever stage it ended
\* in), the directory it created and every file it wrote no longer exist.
C1_WorkdirGoneAfterAnswer ==
    \A r \in Reqs :
        Done(r) => /\ ~\E x \in dirs : x.by = r
                   /\ ~\E f \in files : f.by = r

\* C1 witness: a request that got as far as the upload, failed there and answered
C1_Witness ==
    \E r \in Reqs : Failed(r) /\ failedAt[r] = "post"

\* C2: the stages of a request start in the fixed order, each at most once,
\* each only after every earlier one succeeded (ffmpeg after the three
\* fetches, the POST after ffmpeg exited 0), and none after the first failure.
C2_StagesInSequence ==
    \A r \in Reqs :
        /\ IsPrefix(log[r], StageOrder)
        /\ \A i \in 1..(Len(log[r]) - 1) : log[r][i] \in okStages[r]
        /\ "ffmpeg" \in Started(r) => FetchStages \subseteq okStages[r]
        /\ "post" \in Started(r) => "ffmpeg" \in okStages[r]
        /\ failedAt[r] \in IOStages =>
              /\ log[r] # <<>>
              /\ log[r][Len(log[r])] = failedAt[r]
              /\ pc[r] \in {"exit_with", "done"}
        /\ failedAt[r] \notin IOStages \cup {None} => "post" \notin Started(r)

\* C2 witness: the transcode was started and failed; the request has answered
C2_Witness ==
    \E r \in Reqs : Done(r) /\ failedAt[r] = "ffmpeg"

\* C3: a request answers with a URL only if every stage succeeded and the
\* upload response carried secure_url, and then the URL is that field's value;
\* an upload response without secure_url ends in the publish failure.
C3_NoPartialResult ==
    \A r \in Reqs :
        Done(r) =>
            /\ result[r].status_code = 200 =>
                  /\ okStages[r] = IOStages
                  /\ exc[r] = NoExc
                  /\ "secure_url" \in DOMAIN resp_json[r]
                  /\ result[r].final_url = resp_json[r].secure_url
            /\ result[r].status_code # 200 => result[r].final_url = None
            /\ (resp_json[r] # NoJson /\ "secure_url" \notin DOMAIN resp_json[r]) =>
                  /\ result[r].status_code = 500
                  /\ result[r].detail = <<"Merge failed: ", "Cloudinary upload missing secure_url">>

\* C3 witness: the upload answered 200 with a JSON body that has no secure_url
C3_Witness ==
    \E r \in Reqs : Done(r) /\ "error" \in DOMAIN resp_json[r]

\* C4 (as claimed): when the configuration error is raised, no fetch, no
\* transcode and no upload request has been started for the request.
C4_ConfigErrorBeforeAnyIO ==
    \A r \in Reqs : exc[r] = ConfigError => log[r] = <<>>

\* C5 (as claimed): a failed fetch of a caller-supplied URL answers with a
\* 400-class status; a transcode failure, a malformed publish response or a
\* missing configuration answers with a 500-class status.
C5_StatusByFailureDomain ==
    \A r \in Reqs :
        Failed(r) =>
            /\ failedAt[r] \in FetchStages => result[r].status_code \in 400..499
            /\ failedAt[r] \in {"ffmpeg", "config"} => result[r].status_code \in 500..599
            /\ (failedAt[r] = "post" /\ exc[r].cls = "RuntimeError") =>
                   result[r].status_code \in 500..599

\* C6: the answer of a request whose fetch got HTTP 404 is never the same as
\* the answer of a request whose ffmpeg exited non-zero: the details differ.
C6_NotFoundDistinctFromTranscode ==
    \A r1, r2 \in Reqs :
        ( /\ Failed(r1) /\ failedAt[r1] \in FetchStages /\ exc[r1] = StatusError("404")
          /\ Failed(r2) /\ failedAt[r2] = "ffmpeg" )
        => result[r1].detail # result[r2].detail

\* C6 witness: one request ended on a 404 fetch, another on a failed transcode
C6_Witness ==
    \E r1, r2 \in Reqs :
        /\ Failed(r1) /\ failedAt[r1] \in FetchStages /\ exc[r1] = StatusError("404")
        /\ Failed(r2) /\ failedAt[r2] = "ffmpeg"

\* the clamp as arithmetic, for comparison with what the handler computed
Clamped(x, lo, hi) == IF x < lo THEN lo ELSE IF x > hi THEN hi ELSE x

\* C7: the values handed to ffmpeg are the clamped inputs: each duration is
\* max(1, min(input, 58)), in 1..58; the volume is max(0.0, min(input, 1.0)),
\* in 0.0..1.0; no input makes the request fail at the clamp.
C7_ClampedInputs ==
    \A r \in Reqs :
        pc[r] # "idle" =>
            /\ main_duration[r] = Clamped(req[r].main_duration_sec, 1, 58)
            /\ cta_duration[r] = Clamped(req[r].cta_duration_sec, 1, 58)
            /\ main_duration[r] \in 1..58 /\ cta_duration[r] \in 1..58
            /\ ~volume[r].nan /\ volume[r].val \in 0..100
            /\ ~req[r].music_volume.nan =>
                   volume[r].val = Clamped(req[r].music_volume.val, 0, 100)
            /\ cmd[r] # NoCmd =>
                   /\ cmd[r].t = main_duration[r] + cta_duration[r]
                   /\ cmd[r].volume = volume[r]
            /\ Failed(r) => failedAt[r] \in IOStages \cup {"config"}

\* C7 witness: a request with a duration above 58 and one below 1 was served
C7_Witness ==
    \E r \in Reqs :
        /\ Done(r) /\ result[r].status_code = 200
        /\ req[r].main_duration_sec > 58 /\ req[r].cta_duration_sec < 1

\* C8: the crossfade offset handed to ffmpeg is never negative and never
\* exceeds the main duration (both in tenths of a second).
C8_FadeOffsetInRange ==
    \A r \in Reqs :
        cmd[r] # NoCmd =>
            /\ cmd[r].xfade_offset >= 0
            /\ cmd[r].xfade_offset <= Tenths(main_duration[r])

\* C8 witness: ffmpeg was started with the shortest main duration, where the
\* floor of the offset applies
C8_Witness ==
    \E r \in Reqs : cmd[r] # NoCmd /\ main_duration[r] = 1 /\ cmd[r].xfade_offset = 7

\* C9: concurrent requests never share a directory: an in-flight request's
\* directory is its own, holds only files it wrote, and still holds every
\* file the request has produced, whatever other requests did meanwhile.
C9_DirectoriesDisjoint ==
    \A r \in Reqs :
        InWith(r) =>
            /\ \A r2 \in Reqs \ {r} : InWith(r2) => td[r2] # td[r]
            /\ [name |-> td[r], by |-> r] \in dirs
            /\ \A f \in files : f.dir = td[r] => f.by = r
            /\ \A s \in okStages[r] \cap FetchStages :
                   [dir |-> td[r], name |-> FetchFile(s), by |-> r] \in files
            /\ "ffmpeg" \in okStages[r] =>
                   [dir |-> td[r], name |-> "out.mp4", by |-> r] \in files

\* C9 witness: one request has finished and removed its directory while an
\* overlapping request (it could not take the smallest name) waits for its
\* upload, its output file still in place
C9_Witness ==
    \E r1, r2 \in Reqs :
        /\ Done(r1) /\ "get_main" \in okStages[r1]
        /\ pc[r2] = "post_wait" /\ td[r2] > 1

\* C10: the crossfade window ends inside the output: offset + duration is at
\* most the output length cap main + cta (in tenths of a second).
C10_FadeWindowInsideOutput ==
    \A r \in Reqs :
        cmd[r] # NoCmd =>
            cmd[r].xfade_offset + cmd[r].xfade_duration <= Tenths(cmd[r].t)

\* C10 witness: ffmpeg was started with both durations at their minimum
C10_Witness ==
    \E r \in Reqs : cmd[r] # NoCmd /\ main_duration[r] = 1 /\ cta_duration[r] = 1
====
